---- MODULE Spec2Model ----
(***************************************************************************)
(* Apartment management backend: the role-scoped CRUD handlers of the      *)
(* properties, payments and notices apps, their permission classes, list   *)
(* querysets and serializer validation, modelled as a state machine over   *)
(* the relational tables.  One action per request handler; a request that  *)
(* is refused (4xx/5xx) leaves every table unchanged.                      *)
(***************************************************************************)
EXTENDS Integers, FiniteSets, Sequences, TLC

\* ------------------------------------------------------------------ bounds
\* At most this many rows of each table are alive at a time.
MaxProperties == 2
MaxUnits == 2
MaxPayments == 1
MaxNotices == 1
\* The clock runs from 0 to MaxNow.
MaxNow == 1
MaxInflight == 2
MaxLedger == 2
MaxAccounts == 3
MaxMonths == 14

\* ------------------------------------------------------------------- users
\* The user table is fixed: roles are not changed by any handler modelled
\* here.  K2 and T2 are deactivated accounts; X1 carries a role string that
\* is outside ROLE_CHOICES (the column is a plain CharField).
NoUser == "none"
Absent == "absent"
NoId == 0
AbsentId == -1
AbsentSet == {"absent"}

Users == {"L1", "L2", "K1", "K2", "T1", "T2", "A1", "X1"}

role(u) ==
  CASE u \in {"L1", "L2"} -> "landlord"
    [] u \in {"K1", "K2"} -> "caretaker"
    [] u \in {"T1", "T2"} -> "tenant"
    [] u = "A1" -> "agent"
    [] OTHER -> "manager"

is_active(u) == u \in Users /\ u \notin {"K2", "T2"}

is_landlord(u) == role(u) = "landlord"
is_caretaker(u) == role(u) = "caretaker"
is_tenant(u) == role(u) = "tenant"
is_agent(u) == role(u) = "agent"

\* A request carries an authenticated user: the JWT cookie resolves to an
\* active account.
is_authenticated(u) == u \in Users /\ is_active(u)
Actors == {u \in Users : is_authenticated(u)}

Landlords == {u \in Users : is_landlord(u)}
Caretakers == {u \in Users : is_caretaker(u)}
Tenants == {u \in Users : is_tenant(u)}

SAFE_METHODS == {"GET", "HEAD", "OPTIONS"}
Methods == {"GET", "POST", "PUT", "PATCH", "DELETE"}

\* ------------------------------------------------------------------- state
VARIABLES
  properties,      \* pk -> [landlord, caretakers, total_units]
  units,           \* pk -> [property, tenant, status, rent_amount]
  payments,        \* pk -> [tenant, unit, status, recorded_by, amount,
                   \*        payment_year, payment_month]
  notices,         \* pk -> [audience_type, target_property, target_unit,
                   \*        target_user, custom_recipients, is_published,
                   \*        publish_date, expiry_date, created_by]
  now,             \* timezone.now()
  read_statuses,   \* <<notice pk, user>> -> [is_read, read_at]
  inflight,        \* request id -> a unit save under way, step by step
  accounts,        \* pk -> [role] of the users made by RegisterView
  report           \* the monthly_report request under way, or NoReport

vars ==
  <<properties, units, payments, notices, now, read_statuses, inflight,
    accounts, report>>

\* No monthly_report request is under way and none has been answered.
NoReport ==
  [year |-> NoId, month |-> NoId, months_back |-> NoId, report_data |-> <<>>,
   status |-> NoId]

Restrict(f, S) == [x \in S |-> f[x]]
\* The pk of a new row.  Auto-increment hands out a pk that no live row has;
\* which one is immaterial (deletes cascade, so no reference to a dead pk
\* survives), and the smallest free one keeps the tables within their bounds.
HasFreePk(table, max) == DOMAIN table # 1..max
NewPk(table, max) ==
  CHOOSE pk \in 1..max :
    pk \notin DOMAIN table /\ \A q \in 1..(pk - 1) : q \in DOMAIN table

Put(f, k, v) == [x \in (DOMAIN f) \cup {k} |-> IF x = k THEN v ELSE f[x]]

Init ==
  /\ properties = <<>>
  /\ units = <<>>
  /\ payments = <<>>
  /\ notices = <<>>
  /\ now = 0
  /\ read_statuses = <<>>
  /\ inflight = <<>>
  /\ accounts = <<>>
  /\ report = NoReport


\* ------------------------------------------------- properties/permissions.py
PropertyHasPermission(user) ==
  /\ is_authenticated(user)
  /\ role(user) \in {"landlord", "caretaker"}

PropertyHasObjectPermission(user, method, pk) ==
  IF is_landlord(user) THEN properties[pk].landlord = user
  ELSE IF is_caretaker(user) THEN user \in properties[pk].caretakers
  ELSE FALSE

UnitHasPermission(user) ==
  /\ is_authenticated(user)
  /\ role(user) \in {"landlord", "caretaker", "tenant"}

\* UnitHasObjectPermission with the landlord branch reading the role alone.
UnitHasObjectPermissionAnyLandlord(user, method, pk) ==
  IF is_landlord(user) THEN TRUE
  ELSE IF is_caretaker(user)
    THEN user \in properties[units[pk].property].caretakers
  ELSE IF is_tenant(user)
    THEN IF method \in SAFE_METHODS THEN units[pk].tenant = user ELSE FALSE
  ELSE FALSE

UnitHasObjectPermission(user, method, pk) ==
  IF is_landlord(user) THEN properties[units[pk].property].landlord = user
  ELSE IF is_caretaker(user)
    THEN user \in properties[units[pk].property].caretakers
  ELSE IF is_tenant(user)
    THEN IF method \in SAFE_METHODS THEN units[pk].tenant = user ELSE FALSE
  ELSE FALSE

\* ------------------------------------------------------ properties/views.py
PropertyGetQueryset(user) ==
  IF is_landlord(user)
    THEN {pk \in DOMAIN properties : properties[pk].landlord = user}
  ELSE IF is_caretaker(user)
    THEN {pk \in DOMAIN properties : user \in properties[pk].caretakers}
  ELSE {}

UnitGetQueryset(user) ==
  IF is_landlord(user)
    THEN {pk \in DOMAIN units :
            properties[units[pk].property].landlord = user}
  ELSE IF is_caretaker(user)
    THEN {pk \in DOMAIN units :
            user \in properties[units[pk].property].caretakers}
  ELSE IF is_tenant(user)
    THEN {pk \in DOMAIN units : units[pk].tenant = user}
  ELSE {}

\* GenericAPIView on a detail route: initial() runs check_permissions, then
\* get_object() looks the pk up in get_queryset() (404) and runs
\* check_object_permissions (403).  200 stands for "the handler body runs".
PropertyGetObject(user, method, pk) ==
  IF ~PropertyHasPermission(user) THEN 403
  ELSE IF pk \notin PropertyGetQueryset(user) THEN 404
  ELSE IF ~PropertyHasObjectPermission(user, method, pk) THEN 403
  ELSE 200

\* UnitGetObject with the object check run on the row before the queryset
\* lookup.
UnitGetObjectCheckingFirst(user, method, pk) ==
  IF ~UnitHasPermission(user) THEN 403
  ELSE IF pk \in DOMAIN units /\ ~UnitHasObjectPermission(user, method, pk)
    THEN 403
  ELSE IF pk \notin UnitGetQueryset(user) THEN 404
  ELSE 200

UnitGetObject(user, method, pk) ==
  IF ~UnitHasPermission(user) THEN 403
  ELSE IF pk \notin UnitGetQueryset(user) THEN 404
  ELSE IF ~UnitHasObjectPermission(user, method, pk) THEN 403
  ELSE 200

\* user.assigned_unit: the reverse side of Unit.tenant.
assigned_unit(user) == {pk \in DOMAIN units : units[pk].tenant = user}

\* QuerySet.first() under Unit.Meta.ordering = ['property', 'unit_number'];
\* unit numbers are handed out in pk order here.
First(S) ==
  IF S = {} THEN NoId
  ELSE CHOOSE pk \in S : \A o \in S :
         \/ units[pk].property < units[o].property
         \/ (units[pk].property = units[o].property /\ pk <= o)

\* -------------------------------------------------- properties/serializers.py
\* PropertyDetailSerializer field validation.  data.landlord and
\* data.caretakers may be Absent / AbsentSet (key not sent).
PropertyDetailSerializerValid(data, partial) ==
  /\ (data.landlord = Absent => partial)
  /\ (data.landlord # Absent => data.landlord \in Landlords)
  /\ (data.caretakers # AbsentSet => data.caretakers \subseteq Caretakers)

\* UnitDetailSerializer: field validation, then validate().
UnitDetailSerializerFieldsValid(data, partial) ==
  /\ (data.property = AbsentId => partial)
  /\ (data.property # AbsentId => data.property \in DOMAIN properties)
  /\ (data.tenant \notin {Absent, NoUser} => data.tenant \in Tenants)
  /\ (data.rent_amount = AbsentId => partial)

\* UnitDetailSerializer.validate() without the other-unit test.
UnitDetailSerializerValidateAnything(instance, data) == TRUE

UnitDetailSerializerValidate(instance, data) ==
  LET tenant == data.tenant IN
  IF tenant \notin {Absent, NoUser} /\ assigned_unit(tenant) # {}
    THEN instance # NoId /\ First(assigned_unit(tenant)) = instance
    ELSE TRUE

UnitDetailSerializerValid(instance, data, partial) ==
  /\ UnitDetailSerializerFieldsValid(data, partial)
  /\ UnitDetailSerializerValidate(instance, data)

\* ----------------------------------------------------- properties/models.py
\* Unit.save(): the status rule, the row write, then
\* self.property.update_total_units() on the unit's (new) property.
UnitSaveStatus(tenant, status) ==
  IF tenant # NoUser THEN "occupied"
  ELSE IF status = "occupied" THEN "available"
  ELSE status

UnitsAfterSave(pk, row) ==
  Put(units, pk, [row EXCEPT !.status = UnitSaveStatus(row.tenant, row.status)])

update_total_units(us, prop) ==
  [properties EXCEPT ![prop].total_units =
     Cardinality({u \in DOMAIN us : us[u].property = prop})]

UnitSave(pk, row) ==
  /\ units' = UnitsAfterSave(pk, row)
  /\ properties' = update_total_units(UnitsAfterSave(pk, row), row.property)

\* ------------------------------------------------------- property handlers
PropertyCreateStatus(user, data) ==
  IF ~PropertyHasPermission(user) THEN 403
  ELSE IF ~PropertyDetailSerializerValid(data, FALSE) THEN 400
  ELSE 201

PropertyCreate(user, data) ==
  /\ HasFreePk(properties, MaxProperties)
  /\ PropertyCreateStatus(user, data) = 201
  /\ properties' = Put(properties, NewPk(properties, MaxProperties),
       [landlord |-> IF is_landlord(user) THEN user ELSE data.landlord,
        caretakers |-> IF data.caretakers = AbsentSet THEN {}
                       ELSE data.caretakers,
        total_units |-> 0])
  /\ UNCHANGED <<units, payments, notices, now, read_statuses, inflight,
                 accounts, report>>

PropertyUpdateStatus(user, pk, data, partial) ==
  LET method == IF partial THEN "PATCH" ELSE "PUT" IN
  IF PropertyGetObject(user, method, pk) # 200
    THEN PropertyGetObject(user, method, pk)
  ELSE IF ~PropertyDetailSerializerValid(data, partial) THEN 400
  ELSE 200

\* PropertyViewSet.destroy (ModelViewSet default): get_object() comes first.
PropertyDestroyStatus(user, pk) ==
  IF PropertyGetObject(user, "DELETE", pk) # 200
    THEN PropertyGetObject(user, "DELETE", pk)
  ELSE 204

PropertyUpdate(user, pk, data, partial) ==
  /\ PropertyUpdateStatus(user, pk, data, partial) = 200
  /\ properties' = [properties EXCEPT
       ![pk].landlord = IF data.landlord = Absent THEN @
                        ELSE data.landlord,
       ![pk].caretakers = IF data.caretakers = AbsentSet THEN @
                          ELSE data.caretakers]
  /\ UNCHANGED <<units, payments, notices, now, read_statuses, inflight,
                 accounts, report>>

\* ----------------------------------------------------------- unit handlers
\* UnitViewSet.create.  get_serializer_class() hands a tenant the
\* TenantUnitSerializer, whose required rent_amount is validated (400) and
\* which has no 'property' field, so perform_create's
\* validated_data['property'] raises KeyError (500).
UnitCreateStatus(user, data) ==
  IF ~UnitHasPermission(user) THEN 403
  ELSE IF is_tenant(user)
    THEN IF data.rent_amount = AbsentId THEN 400 ELSE 500
  ELSE IF ~UnitDetailSerializerValid(NoId, data, FALSE) THEN 400
  ELSE IF is_landlord(user) /\ properties[data.property].landlord # user
    THEN 403
  ELSE IF is_caretaker(user)
          /\ user \notin properties[data.property].caretakers
    THEN 403
  ELSE 201

UnitCreate(user, data) ==
  /\ HasFreePk(units, MaxUnits)
  /\ UnitCreateStatus(user, data) = 201
  /\ UnitSave(NewPk(units, MaxUnits),
       [property |-> data.property,
        tenant |-> IF data.tenant = Absent THEN NoUser
                   ELSE data.tenant,
        status |-> IF data.status = Absent THEN "available"
                   ELSE data.status,
        rent_amount |-> data.rent_amount])
  /\ UNCHANGED <<payments, notices, now, read_statuses, inflight, accounts,
                 report>>

UnitUpdateStatus(user, pk, data, partial) ==
  LET method == IF partial THEN "PATCH" ELSE "PUT" IN
  IF UnitGetObject(user, method, pk) # 200
    THEN UnitGetObject(user, method, pk)
  ELSE IF ~UnitDetailSerializerValid(pk, data, partial) THEN 400
  ELSE 200

UnitUpdate(user, pk, data, partial) ==
  /\ UnitUpdateStatus(user, pk, data, partial) = 200
  /\ UnitSave(pk,
       [property |-> IF data.property = AbsentId
                     THEN units[pk].property ELSE data.property,
        tenant |-> IF data.tenant = Absent THEN units[pk].tenant
                   ELSE data.tenant,
        status |-> IF data.status = Absent THEN units[pk].status
                   ELSE data.status,
        rent_amount |-> IF data.rent_amount = AbsentId
                        THEN units[pk].rent_amount ELSE data.rent_amount])
  /\ UNCHANGED <<payments, notices, now, read_statuses, inflight, accounts,
                 report>>

\* UnitViewSet.destroy: instance.delete() cascades over Payment.unit and
\* Notice.target_unit; Unit.save() is not involved.
UnitDestroyStatus(user, pk) ==
  IF UnitGetObject(user, "DELETE", pk) # 200
    THEN UnitGetObject(user, "DELETE", pk)
  ELSE 204

UnitDestroy(user, pk) ==
  /\ UnitDestroyStatus(user, pk) = 204
  /\ units' = Restrict(units, DOMAIN units \ {pk})
  /\ payments' = Restrict(payments,
       {p \in DOMAIN payments : payments[p].unit # pk})
  /\ notices' = Restrict(notices,
       {n \in DOMAIN notices : notices[n].target_unit # pk})
  /\ read_statuses' = Restrict(read_statuses,
       {k \in DOMAIN read_statuses : notices[k[1]].target_unit # pk})
  /\ UNCHANGED <<properties, now, inflight, accounts, report>>

\* UnitViewSet.assign_tenant (POST on a detail route).
AssignTenantStatus(user, pk, tenant_id) ==
  IF UnitGetObject(user, "POST", pk) # 200
    THEN UnitGetObject(user, "POST", pk)
  ELSE IF tenant_id = Absent THEN 400
  ELSE IF ~(tenant_id \in Users /\ role(tenant_id) = "tenant") THEN 404
  ELSE IF assigned_unit(tenant_id) # {} THEN 400
  ELSE 200

assign_tenant(user, pk, tenant_id) ==
  /\ AssignTenantStatus(user, pk, tenant_id) = 200
  /\ UnitSave(pk, [units[pk] EXCEPT !.tenant = tenant_id])
  /\ UNCHANGED <<payments, notices, now, read_statuses, inflight, accounts,
                 report>>


\* ------------------------------------------- unit saves, statement by statement
\* No view or model method opens a transaction or takes a lock, so the
\* statements of one request interleave with those of another.  A request in
\* flight holds the unit instance it loaded and validated (row), the pk of
\* the row (NoId until an INSERT gives it one), the count it has read
\* (AbsentId until read) and the statement it has reached.
Request(pk, row) ==
  [pk |-> pk, row |-> row, total |-> AbsentId, phase |-> "checked"]

FreeRequest(r) == r \in (1..MaxInflight) \ DOMAIN inflight

PendingInserts == {r \in DOMAIN inflight : inflight[r].pk = NoId}

\* UnitViewSet.assign_tenant up to `unit.tenant = tenant`.
BeginAssignTenant(r, user, pk, tenant_id) ==
  /\ FreeRequest(r)
  /\ AssignTenantStatus(user, pk, tenant_id) = 200
  /\ inflight' = Put(inflight, r,
                     Request(pk, [units[pk] EXCEPT !.tenant = tenant_id]))
  /\ UNCHANGED <<properties, units, payments, notices, now, read_statuses,
                 accounts, report>>

\* UnitViewSet.create up to serializer.save().
BeginUnitCreate(r, user, data) ==
  /\ FreeRequest(r)
  /\ Cardinality(DOMAIN units) + Cardinality(PendingInserts) < MaxUnits
  /\ UnitCreateStatus(user, data) = 201
  /\ inflight' = Put(inflight, r,
       Request(NoId,
         [property |-> data.property,
          tenant |-> IF data.tenant = Absent THEN NoUser ELSE data.tenant,
          status |-> IF data.status = Absent THEN "available"
                     ELSE data.status,
          rent_amount |-> data.rent_amount]))
  /\ UNCHANGED <<properties, units, payments, notices, now, read_statuses,
                 accounts, report>>

\* UnitViewSet.update / partial_update up to serializer.save().
BeginUnitUpdate(r, user, pk, data, partial) ==
  /\ FreeRequest(r)
  /\ UnitUpdateStatus(user, pk, data, partial) = 200
  /\ inflight' = Put(inflight, r,
       Request(pk,
         [property |-> IF data.property = AbsentId
                       THEN units[pk].property ELSE data.property,
          tenant |-> IF data.tenant = Absent THEN units[pk].tenant
                     ELSE data.tenant,
          status |-> IF data.status = Absent THEN units[pk].status
                     ELSE data.status,
          rent_amount |-> IF data.rent_amount = AbsentId
                          THEN units[pk].rent_amount
                          ELSE data.rent_amount]))
  /\ UNCHANGED <<properties, units, payments, notices, now, read_statuses,
                 accounts, report>>

\* Unit.save(): the status rule and super().save(), which writes the row.
SaveWrite(r) ==
  /\ r \in DOMAIN inflight
  /\ inflight[r].phase = "checked"
  /\ LET pk == IF inflight[r].pk = NoId THEN NewPk(units, MaxUnits)
               ELSE inflight[r].pk
     IN /\ units' = UnitsAfterSave(pk, inflight[r].row)
        /\ inflight' = [inflight EXCEPT ![r].pk = pk, ![r].phase = "written"]
  /\ UNCHANGED <<properties, payments, notices, now, read_statuses, accounts,
                 report>>

\* Property.update_total_units(): self.units.count().
SaveCount(r) ==
  /\ r \in DOMAIN inflight
  /\ inflight[r].phase = "written"
  /\ inflight' =
       [inflight EXCEPT
          ![r].total = Cardinality({u \in DOMAIN units :
                          units[u].property = inflight[r].row.property}),
          ![r].phase = "counted"]
  /\ UNCHANGED <<properties, units, payments, notices, now, read_statuses,
                 accounts, report>>

\* Property.update_total_units(): self.save(); the request is over.
SaveTotal(r) ==
  /\ r \in DOMAIN inflight
  /\ inflight[r].phase = "counted"
  /\ properties' = [properties EXCEPT
       ![inflight[r].row.property].total_units = inflight[r].total]
  /\ inflight' = Restrict(inflight, DOMAIN inflight \ {r})
  /\ UNCHANGED <<units, payments, notices, now, read_statuses, accounts,
                 report>>

\* -------------------------------------------------------- accounts/models.py
ROLE_CHOICES == {"landlord", "caretaker", "tenant", "agent"}

\* ----------------------------------------------------- accounts/serializers.py
\* UserRegistrationSerializer.validate: the two passwords must be equal.
\* 'role' is read-only in the serializer, so the body's role is not validated.
UserRegistrationSerializerValid(data) == data.password = data.password_confirm

\* --------------------------------------------------------- accounts/views.py
\* request.data.get('role', 'tenant')
requested_role(data) == IF data.role = Absent THEN "tenant" ELSE data.role

\* RegisterView.create (permission_classes = [IsAuthenticated]).
RegisterStatus(user, data) ==
  IF ~is_authenticated(user) THEN 401
  ELSE IF requested_role(data) = "caretaker" /\ ~is_landlord(user) THEN 403
  ELSE IF requested_role(data) \in {"landlord", "agent"} THEN 403
  ELSE IF ~UserRegistrationSerializerValid(data) THEN 400
  ELSE 201

\* serializer.save(role=requested_role): create_user stores the role as given.
Register(user, data) ==
  /\ HasFreePk(accounts, MaxAccounts)
  /\ RegisterStatus(user, data) = 201
  /\ accounts' = Put(accounts, NewPk(accounts, MaxAccounts),
                     [role |-> requested_role(data)])
  /\ UNCHANGED <<properties, units, payments, notices, now, read_statuses,
                 inflight, report>>

\* --------------------------------------------------- payments/permissions.py
PaymentHasPermission(user) ==
  /\ is_authenticated(user)
  /\ role(user) \in {"landlord", "caretaker", "tenant"}

\* PaymentHasObjectPermission with the tenant branch ignoring the method.
PaymentHasObjectPermissionAnyMethod(user, method, pk) ==
  IF is_landlord(user)
    THEN properties[units[payments[pk].unit].property].landlord = user
  ELSE IF is_caretaker(user)
    THEN user \in properties[units[payments[pk].unit].property].caretakers
  ELSE IF is_tenant(user) THEN payments[pk].tenant = user
  ELSE FALSE

PaymentHasObjectPermission(user, method, pk) ==
  IF is_landlord(user)
    THEN properties[units[payments[pk].unit].property].landlord = user
  ELSE IF is_caretaker(user)
    THEN user \in properties[units[payments[pk].unit].property].caretakers
  ELSE IF is_tenant(user)
    THEN IF method \in SAFE_METHODS THEN payments[pk].tenant = user ELSE FALSE
  ELSE FALSE

\* --------------------------------------------------------- payments/views.py
\* PaymentGetQueryset with the caretaker filter left out.
PaymentGetQuerysetAllForCaretaker(user) ==
  IF is_landlord(user)
    THEN {pk \in DOMAIN payments :
            properties[units[payments[pk].unit].property].landlord = user}
  ELSE IF is_caretaker(user) THEN DOMAIN payments
  ELSE IF is_tenant(user)
    THEN {pk \in DOMAIN payments : payments[pk].tenant = user}
  ELSE {}

PaymentGetQueryset(user) ==
  IF is_landlord(user)
    THEN {pk \in DOMAIN payments :
            properties[units[payments[pk].unit].property].landlord = user}
  ELSE IF is_caretaker(user)
    THEN {pk \in DOMAIN payments :
            user \in properties[units[payments[pk].unit].property].caretakers}
  ELSE IF is_tenant(user)
    THEN {pk \in DOMAIN payments : payments[pk].tenant = user}
  ELSE {}

PaymentGetObject(user, method, pk) ==
  IF ~PaymentHasPermission(user) THEN 403
  ELSE IF pk \notin PaymentGetQueryset(user) THEN 404
  ELSE IF ~PaymentHasObjectPermission(user, method, pk) THEN 403
  ELSE 200

\* --------------------------------------------------- payments/serializers.py
\* Money is counted in hundredths, the resolution of the DecimalFields
\* (decimal_places=2); MinValueValidator(Decimal('0.01')) is amount >= 1.
\* payment_year / payment_month are nullable: NoPeriod is the null.
NoPeriod == 0

\* date.today().year, read by PaymentCreateSerializer.validate.
current_year == 2026

\* PaymentCreateSerializer: tenant, unit and amount are required; then
\* validate() compares the unit's current tenant with the given one and, when
\* payment_type 'rent' was sent, checks the period.  payment_type has a
\* model default, so it may be left out (Absent), and then attrs holds no
\* payment_type and the period is not looked at.
PaymentCreateSerializerValid(data) ==
  /\ data.tenant \in Tenants
  /\ data.unit \in DOMAIN units
  /\ data.amount >= 1
  /\ units[data.unit].tenant = data.tenant
  /\ (data.payment_type = "rent" =>
        /\ data.payment_month # NoPeriod /\ data.payment_year # NoPeriod
        /\ 1 <= data.payment_month /\ data.payment_month <= 12
        /\ current_year - 1 <= data.payment_year
        /\ data.payment_year <= current_year + 1)

\* PaymentDetailSerializer has no validate(): only the field checks.
PaymentDetailSerializerValid(data, partial) ==
  /\ (data.tenant = Absent => partial)
  /\ (data.tenant # Absent => data.tenant \in Tenants)
  /\ (data.unit = AbsentId => partial)
  /\ (data.unit # AbsentId => data.unit \in DOMAIN units)
  /\ (data.amount = AbsentId => partial)
  /\ (data.amount # AbsentId => data.amount >= 1)

\* PaymentViewSet.create
PaymentCreateStatus(user, data) ==
  IF ~PaymentHasPermission(user) THEN 403
  ELSE IF is_tenant(user) THEN 403
  ELSE IF ~PaymentCreateSerializerValid(data) THEN 400
  ELSE 201

\* PaymentCreateSerializer.create: recorded_by is the requester; status is
\* not a field of the serializer, so the row is 'completed' (set for manual
\* methods, the model default for the others).
PaymentCreateWithin(max, user, data) ==
  /\ HasFreePk(payments, max)
  /\ PaymentCreateStatus(user, data) = 201
  /\ payments' = Put(payments, NewPk(payments, max),
       [tenant |-> data.tenant, unit |-> data.unit,
        status |-> "completed", recorded_by |-> user,
        amount |-> data.amount, payment_year |-> data.payment_year,
        payment_month |-> data.payment_month])
  /\ UNCHANGED <<properties, units, notices, now, read_statuses, inflight,
                 accounts, report>>

PaymentCreate(user, data) == PaymentCreateWithin(MaxPayments, user, data)

\* PaymentViewSet.update / partial_update (ModelViewSet defaults).
PaymentUpdateStatus(user, pk, data, partial) ==
  LET method == IF partial THEN "PATCH" ELSE "PUT" IN
  IF PaymentGetObject(user, method, pk) # 200
    THEN PaymentGetObject(user, method, pk)
  ELSE IF ~PaymentDetailSerializerValid(data, partial) THEN 400
  ELSE 200

PaymentUpdate(user, pk, data, partial) ==
  /\ PaymentUpdateStatus(user, pk, data, partial) = 200
  /\ payments' = [payments EXCEPT
       ![pk].tenant = IF data.tenant = Absent THEN @ ELSE data.tenant,
       ![pk].unit = IF data.unit = AbsentId THEN @ ELSE data.unit,
       ![pk].status = IF data.status = Absent THEN @ ELSE data.status,
       ![pk].amount = IF data.amount = AbsentId THEN @ ELSE data.amount,
       ![pk].payment_year =
         IF data.payment_year = AbsentId THEN @ ELSE data.payment_year,
       ![pk].payment_month =
         IF data.payment_month = AbsentId THEN @ ELSE data.payment_month]
  /\ UNCHANGED <<properties, units, notices, now, read_statuses, inflight,
                 accounts, report>>

\* PaymentViewSet.destroy (ModelViewSet default).
PaymentDestroyStatus(user, pk) ==
  IF PaymentGetObject(user, "DELETE", pk) # 200
    THEN PaymentGetObject(user, "DELETE", pk)
  ELSE 204

PaymentDestroy(user, pk) ==
  /\ PaymentDestroyStatus(user, pk) = 204
  /\ payments' = Restrict(payments, DOMAIN payments \ {pk})
  /\ UNCHANGED <<properties, units, notices, now, read_statuses, inflight,
                 accounts, report>>

\* ------------------------------------------- payments/views.py: monthly_report
\* datetime.date(year, month, 1) raises ValueError unless 1 <= month <= 12.
date(year, month) == [year |-> year, month |-> month]
DateIsValid(d) == 1 <= d.month /\ d.month <= 12

\* The body of the loop up to `month = month_date.month`, for loop index i
\* and current_date = date.today().  // and % are Python's floor division
\* and modulo; i - month is never negative where they are used.
month_date(year, month, i) ==
  IF i > 0
    THEN IF month - i > 0
           THEN date(year, month - i)
           ELSE LET years_back == (i - month + 12) \div 12
                    months_back_in_year == (i - month) % 12
                IN date(year - years_back, 12 + months_back_in_year)
    ELSE date(year, month)

Reverse(s) == [j \in 1..Len(s) |-> s[Len(s) + 1 - j]]

\* The request arrives: the landlord test, current_date and months_back.
MonthlyReportBegin(user, month, months) ==
  /\ report.status # NoId \/ report = NoReport
  /\ is_authenticated(user) /\ PaymentHasPermission(user)
  /\ is_landlord(user)
  /\ report' = [year |-> current_year, month |-> month,
                months_back |-> months, report_data |-> <<>>,
                status |-> NoId]
  /\ UNCHANGED <<properties, units, payments, notices, now, read_statuses,
                 inflight, accounts>>

\* One turn of `for i in range(months_back)`: the date is built (an invalid
\* one raises ValueError, which nothing catches: 500) and the entry appended.
MonthlyReportStep ==
  LET i == Len(report.report_data)
      d == month_date(report.year, report.month, i)
  IN /\ report # NoReport /\ report.status = NoId
     /\ i < report.months_back
     /\ report' = IF DateIsValid(d)
                    THEN [report EXCEPT
                            !.report_data = Append(report.report_data, d)]
                    ELSE [report EXCEPT !.status = 500]
     /\ UNCHANGED <<properties, units, payments, notices, now, read_statuses,
                    inflight, accounts>>

\* After the loop: report_data.reverse() and the 200 response.
MonthlyReportEnd ==
  /\ report # NoReport /\ report.status = NoId
  /\ Len(report.report_data) = report.months_back
  /\ report' = [report EXCEPT !.report_data = Reverse(report.report_data),
                              !.status = 200]
  /\ UNCHANGED <<properties, units, payments, notices, now, read_statuses,
                 inflight, accounts>>

\* ------------------------------------------------------ payments/models.py
\* aggregate(total=Sum('amount')) over a non-empty set of payment rows.
RECURSIVE Sum(_)
Sum(rows) ==
  IF rows = {} THEN 0
  ELSE LET pk == CHOOSE x \in rows : TRUE IN
       payments[pk].amount + Sum(rows \ {pk})

\* Payment.get_monthly_total without the status='completed' filter.
get_monthly_totalAnyStatus(unit, year, month) ==
  LET rows == {pk \in DOMAIN payments :
                 /\ payments[pk].unit = unit
                 /\ payments[pk].payment_year = year
                 /\ payments[pk].payment_month = month}
  IN IF rows = {} THEN 0 ELSE Sum(rows)

\* Payment.get_monthly_total: the aggregate over no row is None, which
\* `or Decimal('0.00')` turns into zero.
get_monthly_total(unit, year, month) ==
  LET rows == {pk \in DOMAIN payments :
                 /\ payments[pk].unit = unit
                 /\ payments[pk].payment_year = year
                 /\ payments[pk].payment_month = month
                 /\ payments[pk].status = "completed"}
  IN IF rows = {} THEN 0 ELSE Sum(rows)

\* Payment.get_tenant_balance: the dict it returns (the no-unit dict has no
\* 'is_behind' key).
get_tenant_balance(tenant, year, month) ==
  LET unit == First(assigned_unit(tenant)) IN
  IF unit = NoId
    THEN [unit |-> NoId, expected |-> 0, paid |-> 0, balance |-> 0]
    ELSE LET expected_rent == units[unit].rent_amount
             paid_amount == get_monthly_total(unit, year, month)
             balance == expected_rent - paid_amount
         IN [unit |-> unit, expected |-> expected_rent,
             paid |-> paid_amount, balance |-> balance,
             is_behind |-> balance > 0]


\* ------------------------------------------------------- notices/models.py
NoDate == -1

AUDIENCE_TYPES ==
  {"all_tenants", "property", "unit", "individual", "caretakers", "custom"}

\* Notice.get_recipients(), evaluated on the current tables.
\* get_recipients with the property branch keeping inactive tenants.
get_recipientsWithInactive(pk) ==
  LET n == notices[pk] IN
  IF n.audience_type = "property" /\ n.target_property # NoId
    THEN {u \in Users :
            /\ role(u) = "tenant"
            /\ \E a \in assigned_unit(u) :
                 units[a].property = n.target_property}
  ELSE IF n.audience_type = "all_tenants"
    THEN {u \in Users : role(u) = "tenant" /\ is_active(u)}
  ELSE IF n.audience_type = "unit"
    THEN IF n.target_unit # NoId /\ units[n.target_unit].tenant # NoUser
           THEN {u \in Users : u = units[n.target_unit].tenant}
           ELSE {}
  ELSE IF n.audience_type = "individual"
    THEN IF n.target_user # NoUser
           THEN {u \in Users : u = n.target_user}
           ELSE {}
  ELSE IF n.audience_type = "caretakers"
    THEN {u \in Users : role(u) = "caretaker" /\ is_active(u)}
  ELSE IF n.audience_type = "custom"
    THEN {u \in n.custom_recipients : is_active(u)}
  ELSE {}

get_recipients(pk) ==
  LET n == notices[pk] IN
  IF n.audience_type = "all_tenants"
    THEN {u \in Users : role(u) = "tenant" /\ is_active(u)}
  ELSE IF n.audience_type = "property"
    THEN IF n.target_property # NoId
           THEN {u \in Users :
                   /\ role(u) = "tenant"
                   /\ \E a \in assigned_unit(u) :
                        units[a].property = n.target_property
                   /\ is_active(u)}
           ELSE {}
  ELSE IF n.audience_type = "unit"
    THEN IF n.target_unit # NoId /\ units[n.target_unit].tenant # NoUser
           THEN {u \in Users : u = units[n.target_unit].tenant}
           ELSE {}
  ELSE IF n.audience_type = "individual"
    THEN IF n.target_user # NoUser
           THEN {u \in Users : u = n.target_user}
           ELSE {}
  ELSE IF n.audience_type = "caretakers"
    THEN {u \in Users : role(u) = "caretaker" /\ is_active(u)}
  ELSE IF n.audience_type = "custom"
    THEN {u \in n.custom_recipients : is_active(u)}
  ELSE {}

\* Notice.save(): the three target checks; TRUE when super().save() runs.
\* Notice.is_active()
notice_is_active(n) ==
  IF ~n.is_published THEN FALSE
  ELSE IF n.publish_date > now THEN FALSE
  ELSE IF n.expiry_date # NoDate /\ n.expiry_date < now THEN FALSE
  ELSE TRUE

NoticeSaveValid(n) ==
  /\ ~(n.audience_type = "property" /\ n.target_property = NoId)
  /\ ~(n.audience_type = "unit" /\ n.target_unit = NoId)
  /\ ~(n.audience_type = "individual" /\ n.target_user = NoUser)

\* ---------------------------------------------------- notices/permissions.py
\* NoticeHasPermission shutting out the agent role by name.
NoticeHasPermissionNotAgent(user) ==
  /\ is_authenticated(user)
  /\ role(user) # "agent"

NoticeHasPermission(user) ==
  /\ is_authenticated(user)
  /\ role(user) \in {"landlord", "caretaker", "tenant"}

NoticeCaretakerBranch(user, n) ==
  IF is_caretaker(user)
    THEN IF n.created_by = user THEN TRUE
         ELSE IF n.audience_type = "property" /\ n.target_property # NoId
           THEN user \in properties[n.target_property].caretakers
         ELSE IF n.audience_type = "unit" /\ n.target_unit # NoId
           THEN user \in properties[units[n.target_unit].property].caretakers
         ELSE FALSE
    ELSE FALSE

NoticeLandlordBranch(user, n) ==
  IF n.created_by = user THEN TRUE
  ELSE IF n.audience_type = "property" /\ n.target_property # NoId
    THEN properties[n.target_property].landlord = user
  ELSE IF n.audience_type = "unit" /\ n.target_unit # NoId
    THEN properties[units[n.target_unit].property].landlord = user
  ELSE IF /\ n.audience_type = "individual"
          /\ n.target_user # NoUser
          /\ First(assigned_unit(n.target_user)) # NoId
    THEN properties[units[First(assigned_unit(n.target_user))].property]
           .landlord = user
  ELSE IF n.audience_type = "all_tenants" /\ n.created_by = user THEN TRUE
  ELSE NoticeCaretakerBranch(user, n)

\* NoticeHasObjectPermission with the tenant branch ignoring the method.
NoticeHasObjectPermissionAnyMethod(user, method, pk) ==
  IF is_tenant(user) THEN user \in get_recipients(pk)
  ELSE IF is_landlord(user) THEN NoticeLandlordBranch(user, notices[pk])
  ELSE NoticeCaretakerBranch(user, notices[pk])

NoticeHasObjectPermission(user, method, pk) ==
  IF is_tenant(user)
    THEN IF method \in SAFE_METHODS THEN user \in get_recipients(pk)
         ELSE FALSE
  ELSE IF is_landlord(user) THEN NoticeLandlordBranch(user, notices[pk])
  ELSE NoticeCaretakerBranch(user, notices[pk])

\* ---------------------------------------------------------- notices/views.py
NoticeGetQueryset(user) ==
  IF is_tenant(user)
    THEN {pk \in DOMAIN notices :
            LET n == notices[pk] IN
            /\ \/ n.audience_type = "all_tenants"
               \/ /\ n.audience_type = "property"
                  /\ \E u \in DOMAIN units :
                       units[u].property = n.target_property
                       /\ units[u].tenant = user
               \/ /\ n.audience_type = "unit"
                  /\ n.target_unit # NoId
                  /\ units[n.target_unit].tenant = user
               \/ (n.audience_type = "individual" /\ n.target_user = user)
               \/ (n.audience_type = "custom" /\ user \in n.custom_recipients)
            /\ n.is_published
            /\ n.publish_date <= now
            /\ (n.expiry_date = NoDate \/ n.expiry_date > now)}
  ELSE IF is_landlord(user)
    THEN {pk \in DOMAIN notices :
            LET n == notices[pk] IN
            \/ n.created_by = user
            \/ /\ n.audience_type = "property"
               /\ n.target_property # NoId
               /\ properties[n.target_property].landlord = user
            \/ /\ n.audience_type = "unit"
               /\ n.target_unit # NoId
               /\ properties[units[n.target_unit].property].landlord = user
            \/ /\ n.audience_type = "individual"
               /\ n.target_user # NoUser
               /\ \E a \in assigned_unit(n.target_user) :
                    properties[units[a].property].landlord = user}
  ELSE IF is_caretaker(user)
    THEN {pk \in DOMAIN notices :
            LET n == notices[pk] IN
            \/ n.created_by = user
            \/ /\ n.audience_type = "property"
               /\ n.target_property # NoId
               /\ user \in properties[n.target_property].caretakers
            \/ /\ n.audience_type = "unit"
               /\ n.target_unit # NoId
               /\ user \in properties[units[n.target_unit].property].caretakers}
  ELSE {}

NoticeGetObject(user, method, pk) ==
  IF ~NoticeHasPermission(user) THEN 403
  ELSE IF pk \notin NoticeGetQueryset(user) THEN 404
  ELSE IF ~NoticeHasObjectPermission(user, method, pk) THEN 403
  ELSE 200

\* ---------------------------------------------------- notices/serializers.py
\* NoticeCreateSerializer: the related-field lookups, then validate().
NoticeCreateSerializerFieldsValid(data) ==
  /\ data.audience_type \in AUDIENCE_TYPES
  /\ (data.target_property # NoId => data.target_property \in DOMAIN properties)
  /\ (data.target_unit # NoId => data.target_unit \in DOMAIN units)
  /\ (data.target_user # NoUser => data.target_user \in Users)
  /\ data.custom_recipients \subseteq Users

NoticeCreateSerializerValidate(data) ==
  /\ ~(data.audience_type = "property" /\ data.target_property = NoId)
  /\ ~(data.audience_type = "unit" /\ data.target_unit = NoId)
  /\ ~(data.audience_type = "individual" /\ data.target_user = NoUser)
  /\ ~(data.audience_type = "custom" /\ data.custom_recipients = {})
  /\ ~(data.expiry_date # NoDate /\ data.expiry_date <= now)

\* NoticeUpdateSerializer.validate_expiry_date
NoticeUpdateSerializerValid(data) ==
  ~(data.expiry_date \notin {AbsentId, NoDate} /\ data.expiry_date <= now)

\* The row a create request or an admin form builds.
NoticeRow(data, is_published, created_by) ==
  [audience_type |-> data.audience_type,
   target_property |-> data.target_property,
   target_unit |-> data.target_unit,
   target_user |-> data.target_user,
   custom_recipients |-> data.custom_recipients,
   is_published |-> is_published,
   publish_date |-> data.publish_date,
   expiry_date |-> data.expiry_date,
   created_by |-> created_by]

\* NoticeViewSet.create -> NoticeCreateSerializer.create -> Notice.save()
NoticeCreateStatus(user, data) ==
  IF ~NoticeHasPermission(user) THEN 403
  ELSE IF is_tenant(user) THEN 403
  ELSE IF ~NoticeCreateSerializerFieldsValid(data) THEN 400
  ELSE IF ~NoticeCreateSerializerValidate(data) THEN 400
  ELSE IF ~NoticeSaveValid(NoticeRow(data, TRUE, user)) THEN 500
  ELSE 201

NoticeCreate(user, data) ==
  /\ HasFreePk(notices, MaxNotices)
  /\ NoticeCreateStatus(user, data) = 201
  /\ notices' = Put(notices, NewPk(notices, MaxNotices),
                     NoticeRow(data, TRUE, user))
  /\ UNCHANGED <<properties, units, payments, now, read_statuses, inflight,
                 accounts, report>>

\* notices/admin.py, NoticeAdmin "add": the ModelForm checks the foreign keys
\* (created_by among landlords and caretakers), builds the row and calls
\* Notice.save(), then stores custom_recipients.  ValueError stores nothing.
NoticeAdminFormValid(data, created_by) ==
  /\ NoticeCreateSerializerFieldsValid(data)
  /\ created_by \in Users
  /\ role(created_by) \in {"landlord", "caretaker"}

AdminNoticeAdd(data, is_published, created_by) ==
  /\ HasFreePk(notices, MaxNotices)
  /\ NoticeAdminFormValid(data, created_by)
  /\ NoticeSaveValid(NoticeRow(data, is_published, created_by))
  /\ notices' = Put(notices, NewPk(notices, MaxNotices),
                     NoticeRow(data, is_published, created_by))
  /\ UNCHANGED <<properties, units, payments, now, read_statuses, inflight,
                 accounts, report>>

\* NoticeViewSet.update / partial_update with NoticeUpdateSerializer.
NoticeUpdateStatus(user, pk, data, partial) ==
  LET method == IF partial THEN "PATCH" ELSE "PUT" IN
  IF NoticeGetObject(user, method, pk) # 200
    THEN NoticeGetObject(user, method, pk)
  ELSE IF ~NoticeUpdateSerializerValid(data) THEN 400
  ELSE IF ~NoticeSaveValid(notices[pk]) THEN 500
  ELSE 200

NoticeUpdate(user, pk, data, partial) ==
  /\ NoticeUpdateStatus(user, pk, data, partial) = 200
  /\ notices' = [notices EXCEPT
       ![pk].is_published = IF data.is_published = Absent THEN @
                            ELSE data.is_published = "true",
       ![pk].expiry_date = IF data.expiry_date = AbsentId THEN @
                           ELSE data.expiry_date]
  /\ UNCHANGED <<properties, units, payments, now, read_statuses, inflight,
                 accounts, report>>

\* NoticeViewSet.destroy (ModelViewSet default).
NoticeDestroyStatus(user, pk) ==
  IF NoticeGetObject(user, "DELETE", pk) # 200
    THEN NoticeGetObject(user, "DELETE", pk)
  ELSE 204

NoticeDestroy(user, pk) ==
  /\ NoticeDestroyStatus(user, pk) = 204
  /\ notices' = Restrict(notices, DOMAIN notices \ {pk})
  /\ read_statuses' = Restrict(read_statuses,
       {k \in DOMAIN read_statuses : k[1] # pk})
  /\ UNCHANGED <<properties, units, payments, now, inflight, accounts, report>>

\* NoticeReadStatus.objects.get_or_create(notice, user): the table with a
\* new unread row when the pair has none.
ReadStatusKey(pk, user) == <<pk, user>>

get_or_create(pk, user) ==
  IF ReadStatusKey(pk, user) \in DOMAIN read_statuses THEN read_statuses
  ELSE Put(read_statuses, ReadStatusKey(pk, user),
           [is_read |-> FALSE, read_at |-> NoDate])

\* NoticeReadStatus.mark_as_read() with the write never marking the row.
mark_as_readKeepingUnread(row) ==
  IF ~row.is_read THEN [is_read |-> FALSE, read_at |-> now] ELSE row

\* NoticeReadStatus.mark_as_read() stamping the row on every call.
mark_as_readStamping(row) == [is_read |-> TRUE, read_at |-> now]

\* NoticeReadStatus.mark_as_read(): the row after the call.
mark_as_read(row) ==
  IF ~row.is_read THEN [is_read |-> TRUE, read_at |-> now] ELSE row

\* NoticeViewSet.retrieve: the generic retrieve, then for a tenant the read
\* status row is fetched or created, unread.
NoticeRetrieveStatus(user, pk) == NoticeGetObject(user, "GET", pk)

\* NoticeViewSet.retrieve marking the row read on viewing.
NoticeRetrieveMarking(user, pk) ==
  /\ NoticeRetrieveStatus(user, pk) = 200
  /\ read_statuses' =
       IF is_tenant(user)
         THEN [get_or_create(pk, user) EXCEPT ![ReadStatusKey(pk, user)] =
                 mark_as_read(@)]
         ELSE read_statuses
  /\ UNCHANGED <<properties, units, payments, notices, now, inflight, accounts,
                 report>>

NoticeRetrieve(user, pk) ==
  /\ NoticeRetrieveStatus(user, pk) = 200
  /\ read_statuses' =
       IF is_tenant(user) THEN get_or_create(pk, user) ELSE read_statuses
  /\ UNCHANGED <<properties, units, payments, notices, now, inflight, accounts,
                 report>>

\* NoticeViewSet.mark_as_read: a POST, so get_object() checks the object
\* permission with a non-safe method before the role test of the body.
NoticeMarkAsReadStatus(user, pk) ==
  IF NoticeGetObject(user, "POST", pk) # 200
    THEN NoticeGetObject(user, "POST", pk)
  ELSE IF ~is_tenant(user) THEN 403
  ELSE 200

NoticeMarkAsRead(user, pk) ==
  /\ NoticeMarkAsReadStatus(user, pk) = 200
  /\ read_statuses' =
       [get_or_create(pk, user) EXCEPT ![ReadStatusKey(pk, user)] =
          mark_as_read(@)]
  /\ UNCHANGED <<properties, units, payments, notices, now, inflight, accounts,
                 report>>

\* NoticeReadStatus.mark_as_read() called on a stored row.
Acknowledge(key) ==
  /\ key \in DOMAIN read_statuses
  /\ read_statuses' = [read_statuses EXCEPT ![key] = mark_as_read(@)]
  /\ UNCHANGED <<properties, units, payments, notices, now, inflight, accounts,
                 report>>

\* Time passes.
Tick ==
  /\ now < MaxNow
  /\ now' = now + 1
  /\ UNCHANGED <<properties, units, payments, notices, read_statuses, inflight,
                 accounts, report>>


\* ------------------------------------------------------------ request bodies
\* What the clients send.  The wide sets are used where the registry is
\* explored on its own, the narrow ones where a ledger or notices ride on it.
PropertyData ==
  [landlord : {Absent, "L1", "L2", "K1"},
   caretakers : {AbsentSet, {}, {"K1"}, {"T1"}}]

PropertyDataNarrow ==
  [landlord : {"L1"}, caretakers : {{}, {"K1"}}]

PropertyDataOne ==
  [landlord : {"L1"}, caretakers : {{"K1"}}]

UnitData ==
  [property : {AbsentId} \cup (1..MaxProperties),
   tenant : {Absent, NoUser, "T1", "T2", "K1"},
   status : {Absent, "occupied", "maintenance"}, rent_amount : {2}]

UnitCreateDataNarrow ==
  [property : 1..MaxProperties, tenant : {NoUser, "T1", "T2"},
   status : {Absent}, rent_amount : {2}]

UnitCreateDataOne ==
  [property : 1..MaxProperties, tenant : {NoUser, "T1"}, status : {Absent},
   rent_amount : {2}]

UnitUpdateDataNarrow ==
  [property : {AbsentId}, tenant : {NoUser, "T1", "T2"}, status : {Absent},
   rent_amount : {AbsentId}]

TenantIds == {Absent, "T1", "T2", "K1"}

PaymentCreateData ==
  [tenant : {"T1", "T2", "K1"}, unit : 1..MaxUnits, amount : {1},
   payment_type : {"rent"}, payment_year : {current_year},
   payment_month : {1}]

PaymentUpdateData ==
  [tenant : {Absent, "T1", "T2"},
   unit : {AbsentId} \cup (1..MaxUnits),
   status : {Absent, "pending", "completed"}, amount : {1},
   payment_year : {AbsentId}, payment_month : {AbsentId}]

PaymentCreateDataNarrow ==
  [tenant : {"T1"}, unit : 1..MaxUnits, amount : {1},
   payment_type : {"rent"}, payment_year : {current_year},
   payment_month : {1}]

PaymentUpdateDataNarrow ==
  [tenant : {Absent}, unit : {AbsentId}, status : {"pending", "completed"},
   amount : {AbsentId}, payment_year : {AbsentId},
   payment_month : {AbsentId}]

\* Only the target that the audience type reads is sent; NoId / NoUser / {}
\* is the missing target.
Targeting(a, tp, tu, tuser, cr) ==
  [audience_type |-> a, target_property |-> tp, target_unit |-> tu,
   target_user |-> tuser, custom_recipients |-> cr]

NoticeTargetings ==
  {Targeting("all_tenants", NoId, NoId, NoUser, {}),
   Targeting("caretakers", NoId, NoId, NoUser, {})}
  \cup {Targeting("property", tp, NoId, NoUser, {}) :
          tp \in {NoId} \cup (1..MaxProperties)}
  \cup {Targeting("unit", NoId, tu, NoUser, {}) :
          tu \in {NoId} \cup (1..MaxUnits)}
  \cup {Targeting("individual", NoId, NoId, tuser, {}) :
          tuser \in {NoUser, "T1", "K1"}}
  \cup {Targeting("custom", NoId, NoId, NoUser, cr) :
          cr \in {{}, {"T1", "T2"}}}

NoticeTargetingsNarrow ==
  {Targeting("all_tenants", NoId, NoId, NoUser, {}),
   Targeting("unit", NoId, 1, NoUser, {})}

WithDates(T, PD, ED) ==
  {[audience_type |-> t.audience_type,
    target_property |-> t.target_property,
    target_unit |-> t.target_unit,
    target_user |-> t.target_user,
    custom_recipients |-> t.custom_recipients,
    publish_date |-> pd,
    expiry_date |-> ed] : t \in T, pd \in PD, ed \in ED}

NoticeData == WithDates(NoticeTargetings, {0}, {NoDate})
NoticeDataNarrow == WithDates(NoticeTargetingsNarrow, 0..MaxNow, {NoDate})

NoticeUpdateData ==
  [is_published : {Absent, "true", "false"},
   expiry_date : {AbsentId, NoDate} \cup (1..MaxNow)]

NoticeUpdateDataNarrow ==
  [is_published : {"true", "false"}, expiry_date : {AbsentId}]

\* ------------------------------------------------------------- next states
PropertyRequests(U, D, P) ==
  \/ \E user \in U, data \in D : PropertyCreate(user, data)
  \/ \E user \in U, pk \in DOMAIN properties, data \in D, partial \in P :
       PropertyUpdate(user, pk, data, partial)

UnitWrites(U, DC, DU, P, T) ==
  \/ \E user \in U, data \in DC : UnitCreate(user, data)
  \/ \E user \in U, pk \in DOMAIN units, data \in DU, partial \in P :
       UnitUpdate(user, pk, data, partial)
  \/ \E user \in U, pk \in DOMAIN units, tenant_id \in T :
       assign_tenant(user, pk, tenant_id)

UnitDeletes(U) ==
  \E user \in U, pk \in DOMAIN units : UnitDestroy(user, pk)

PaymentRequests(U, DC, DU, P) ==
  \/ \E user \in U, data \in DC : PaymentCreate(user, data)
  \/ \E user \in U, pk \in DOMAIN payments, data \in DU, partial \in P :
       PaymentUpdate(user, pk, data, partial)
  \/ \E user \in U, pk \in DOMAIN payments : PaymentDestroy(user, pk)

NoticeRequests(U, DC, DU, P) ==
  \/ \E user \in U, data \in DC : NoticeCreate(user, data)
  \/ \E user \in U, pk \in DOMAIN notices, data \in DU, partial \in P :
       NoticeUpdate(user, pk, data, partial)
  \/ \E user \in U, pk \in DOMAIN notices : NoticeDestroy(user, pk)

AdminRequests(D, CB) ==
  \E data \in D, is_published \in BOOLEAN, created_by \in CB :
    AdminNoticeAdd(data, is_published, created_by)

\* Every handler, on narrow request bodies; one landlord is at work.
Requesters == Actors \ {"L2"}

Next ==
  \/ PropertyRequests(Requesters, PropertyDataOne, {TRUE})
  \/ UnitWrites(Requesters, UnitCreateDataOne, UnitUpdateDataNarrow, {TRUE},
                {"T1"})
  \/ UnitDeletes(Requesters)
  \/ PaymentRequests(Requesters, PaymentCreateDataNarrow,
                     PaymentUpdateDataNarrow, {TRUE})
  \/ NoticeRequests(Requesters, NoticeDataNarrow, NoticeUpdateDataNarrow,
                    {TRUE})
  \/ AdminRequests(NoticeDataNarrow, {"K1"})
  \/ Tick

Spec == Init /\ [][Next]_vars

\* The registry on its own, on wide request bodies.
NextRegistry ==
  \/ PropertyRequests(Actors, PropertyData, BOOLEAN)
  \/ UnitWrites(Actors, UnitData, UnitData, BOOLEAN, TenantIds)
  \/ UnitDeletes(Actors)

SpecRegistry == Init /\ [][NextRegistry]_vars

NarrowRegistry ==
  \/ PropertyRequests(Actors, PropertyDataNarrow, {TRUE})
  \/ UnitWrites(Actors, UnitCreateDataNarrow, UnitUpdateDataNarrow, {TRUE},
                {"T1"})

\* The registry with the payment ledger.
NextPayments ==
  \/ NarrowRegistry
  \/ PaymentRequests(Actors, PaymentCreateData, PaymentUpdateData, BOOLEAN)

SpecPayments == Init /\ [][NextPayments]_vars

\* The registry with the notices, at a fixed time.
NextNotices ==
  \/ NarrowRegistry
  \/ NoticeRequests(Requesters, NoticeData, NoticeUpdateDataNarrow, {TRUE})
  \/ AdminRequests(NoticeData, {"L1", "K1"})

SpecNotices == Init /\ [][NextNotices]_vars

\* The notices with their read statuses, over a registry of one landlord.
NoticeTargetingsReads ==
  {Targeting("all_tenants", NoId, NoId, NoUser, {}),
   Targeting("unit", NoId, 1, NoUser, {}),
   Targeting("caretakers", NoId, NoId, NoUser, {})}

NoticeDataReads ==
  WithDates(NoticeTargetingsReads, 0..MaxNow, {NoDate} \cup (1..MaxNow))

ReadRequesters == {"L1", "K1", "T1", "A1"}

NoticeRetrieves(U) ==
  \E user \in U, pk \in DOMAIN notices : NoticeRetrieve(user, pk)

Acknowledgments ==
  \E key \in DOMAIN read_statuses : Acknowledge(key)

NextReads ==
  \/ PropertyRequests(ReadRequesters, PropertyDataOne, {TRUE})
  \/ UnitWrites(ReadRequesters, UnitCreateDataOne, UnitUpdateDataNarrow,
                {TRUE}, {"T1"})
  \/ UnitDeletes(ReadRequesters)
  \/ NoticeRequests(ReadRequesters, NoticeDataReads, NoticeUpdateDataNarrow,
                    {TRUE})
  \/ NoticeRetrieves(ReadRequesters)
  \/ Acknowledgments
  \/ Tick

SpecReads == Init /\ [][NextReads]_vars

\* Unit saves of concurrent requests, statement by statement.
TenantOnly(t) ==
  [property |-> AbsentId, tenant |-> t, status |-> Absent,
   rent_amount |-> AbsentId]

RaceRequesters == {"L1", "K1"}

UnitCreateDataVacant ==
  [property : 1..MaxProperties, tenant : {NoUser}, status : {Absent},
   rent_amount : {2}]

NextRace ==
  \/ \E user \in RaceRequesters, data \in PropertyDataOne :
       PropertyCreate(user, data)
  \/ \E r \in 1..MaxInflight, user \in RaceRequesters,
        data \in UnitCreateDataVacant : BeginUnitCreate(r, user, data)
  \/ \E r \in 1..MaxInflight, user \in RaceRequesters, pk \in DOMAIN units :
       BeginAssignTenant(r, user, pk, "T1")
  \/ \E r \in 1..MaxInflight, user \in RaceRequesters, pk \in DOMAIN units :
       BeginUnitUpdate(r, user, pk, TenantOnly("T1"), TRUE)
  \/ \E r \in DOMAIN inflight : SaveWrite(r)
  \/ \E r \in DOMAIN inflight : SaveCount(r)
  \/ \E r \in DOMAIN inflight : SaveTotal(r)

SpecRace == Init /\ [][NextRace]_vars

\* The ledger: one landlord, units with a rent in property 1, tenant T1
\* moving in and out, payments of several amounts and periods recorded and
\* their status changed.
Rents == {0, 2}

UnitCreateDataRents ==
  [property : {1}, tenant : {NoUser, "T1"}, status : {Absent},
   rent_amount : Rents]

UnitUpdateDataRents ==
  [property : {AbsentId}, tenant : {Absent, NoUser}, status : {Absent},
   rent_amount : {AbsentId} \cup Rents]

\* Rent payments carry a period; a body without payment_type may leave it out.
PaymentCreateDataLedger ==
  [tenant : {"T1"}, unit : 1..MaxUnits, amount : {1, 2},
   payment_type : {"rent"}, payment_year : {current_year - 1, current_year},
   payment_month : {1}]
  \cup
  [tenant : {"T1"}, unit : 1..MaxUnits, amount : {1},
   payment_type : {"rent"}, payment_year : {current_year},
   payment_month : {2}]
  \cup
  [tenant : {"T1"}, unit : 1..MaxUnits, amount : {1},
   payment_type : {Absent}, payment_year : {NoPeriod},
   payment_month : {NoPeriod}]

PaymentUpdateDataLedger ==
  [tenant : {Absent}, unit : {AbsentId}, status : {"pending", "completed"},
   amount : {AbsentId}, payment_year : {AbsentId},
   payment_month : {AbsentId}]

NextBalance ==
  \/ \E data \in PropertyDataOne : PropertyCreate("L1", data)
  \/ \E data \in UnitCreateDataRents : UnitCreate("L1", data)
  \/ \E pk \in DOMAIN units, data \in UnitUpdateDataRents :
       UnitUpdate("L1", pk, data, TRUE)
  \/ \E pk \in DOMAIN units : assign_tenant("L1", pk, "T1")
  \/ \E user \in {"L1", "K1"}, data \in PaymentCreateDataLedger :
       PaymentCreateWithin(MaxLedger, user, data)
  \/ \E pk \in DOMAIN payments, data \in PaymentUpdateDataLedger :
       PaymentUpdate("L1", pk, data, TRUE)

SpecBalance == Init /\ [][NextBalance]_vars

\* Tenancies that only begin: units are created vacant or with T1, a vacant
\* unit may be assigned to T1, and no unit is updated or deleted; payments
\* are recorded and updated with any tenant and unit.
NextTenure ==
  \/ \E data \in PropertyDataOne : PropertyCreate("L1", data)
  \/ \E data \in UnitCreateDataOne : UnitCreate("L1", data)
  \/ \E pk \in DOMAIN units : assign_tenant("L1", pk, "T1")
  \/ \E user \in {"L1", "K1"}, data \in PaymentCreateDataNarrow :
       PaymentCreate(user, data)
  \/ \E user \in {"L1", "K1"}, pk \in DOMAIN payments,
        data \in PaymentUpdateData, partial \in BOOLEAN :
       PaymentUpdate(user, pk, data, partial)

SpecTenure == Init /\ [][NextTenure]_vars

\* Registration: every authenticated user sends bodies with the role left
\* out, each role of ROLE_CHOICES, a differently-cased role, an unknown role
\* and the empty string, with matching and non-matching passwords.
RegisterData ==
  [role : {Absent, "tenant", "caretaker", "landlord", "agent", "Landlord",
           "admin", ""},
   password : {"p"}, password_confirm : {"p", "q"}]

NextAccounts ==
  \E user \in Actors, data \in RegisterData : Register(user, data)

SpecAccounts == Init /\ [][NextAccounts]_vars

\* Visibility: properties with and without caretaker K1, units with and
\* without tenant T1, a payment, and notices by L1 and K1; L2, K1, T1 each
\* find rows outside what they may list.
NextHidden ==
  \/ \E data \in PropertyDataNarrow : PropertyCreate("L1", data)
  \/ \E data \in UnitCreateDataOne : UnitCreate("L1", data)
  \/ \E data \in PaymentCreateDataNarrow : PaymentCreate("L1", data)
  \/ \E pk \in DOMAIN payments, data \in PaymentUpdateData :
       PaymentUpdate("L1", pk, data, TRUE)
  \/ \E user \in {"L1", "K1"}, data \in NoticeDataNarrow :
       NoticeCreate(user, data)

SpecHidden == Init /\ [][NextHidden]_vars

\* The monthly report: asked in every month of the year for 1..MaxMonths
\* months, and computed one loop turn at a time.
NextReport ==
  \/ \E user \in Actors, month \in 1..12, months \in 1..MaxMonths :
       MonthlyReportBegin(user, month, months)
  \/ MonthlyReportStep
  \/ MonthlyReportEnd

SpecReport == Init /\ [][NextReport]_vars

\* ------------------------------------------------------------------ claims
ReadMethods == SAFE_METHODS \cap Methods

\* C1: for every requesting user of any role and every property, unit and
\* payment, the entity is in the user's list queryset exactly when
\* has_permission and has_object_permission allow that user a safe-method
\* request on it.
C1_ListAgreesWithObjectCheck ==
  \A user \in Actors, method \in ReadMethods :
    /\ \A pk \in DOMAIN properties :
         pk \in PropertyGetQueryset(user)
           <=> (PropertyHasPermission(user)
                /\ PropertyHasObjectPermission(user, method, pk))
    /\ \A pk \in DOMAIN units :
         pk \in UnitGetQueryset(user)
           <=> (UnitHasPermission(user)
                /\ UnitHasObjectPermission(user, method, pk))
    /\ \A pk \in DOMAIN payments :
         pk \in PaymentGetQueryset(user)
           <=> (PaymentHasPermission(user)
                /\ PaymentHasObjectPermission(user, method, pk))

\* A payment that its landlord, a caretaker and its tenant list and that the
\* other landlord does not, beside a second property of that other landlord.
C1_Witness ==
  \E pk \in DOMAIN payments :
    /\ pk \in PaymentGetQueryset("L1")
    /\ pk \in PaymentGetQueryset("K1")
    /\ pk \in PaymentGetQueryset("T1")
    /\ pk \notin PaymentGetQueryset("L2")
    /\ PropertyGetQueryset("L2") # {}
    /\ payments[pk].unit \in UnitGetQueryset("T1")

\* C2: for every tenant, landlord and caretaker and every notice, the notice
\* is in NoticeViewSet.get_queryset for the user exactly when
\* NoticePermission.has_object_permission allows the user a safe-method
\* request on it.
C2_NoticeListAgreesWithObjectCheck ==
  \A user \in Actors, method \in ReadMethods, pk \in DOMAIN notices :
    role(user) \in {"tenant", "landlord", "caretaker"} =>
      (pk \in NoticeGetQueryset(user)
         <=> NoticeHasObjectPermission(user, method, pk))

\* C3: for every tenant and notice, has_object_permission allows a safe
\* method exactly when the tenant is in get_recipients() on the current
\* state, and denies every other method.
C3_TenantReadsOwnNotices ==
  \A t \in Tenants, pk \in DOMAIN notices, method \in Methods :
    NoticeHasObjectPermission(t, method, pk)
      <=> (method \in SAFE_METHODS /\ t \in get_recipients(pk))

\* A unit notice whose unit is held by T1: T1 may read it, may not write it,
\* and the tenant without the unit may do neither.
C3_Witness ==
  \E pk \in DOMAIN notices :
    /\ notices[pk].audience_type = "unit"
    /\ get_recipients(pk) = {"T1"}
    /\ NoticeHasObjectPermission("T1", "GET", pk)
    /\ ~NoticeHasObjectPermission("T1", "PATCH", pk)
    /\ ~NoticeHasObjectPermission("T2", "GET", pk)

\* C4: on an existing property, unit or payment, for every method, a
\* landlord is let through exactly when they are the landlord of the
\* property concerned and a caretaker exactly when they are among its
\* caretakers.
OwnsOrManages(user, prop) ==
  IF is_landlord(user) THEN properties[prop].landlord = user
  ELSE user \in properties[prop].caretakers

OtherRoles == {u \in Users : role(u) \notin {"landlord", "caretaker", "tenant"}}

C5_FailsClosed ==
  \A user \in OtherRoles :
    /\ ~PropertyHasPermission(user) /\ ~UnitHasPermission(user)
    /\ ~PaymentHasPermission(user) /\ ~NoticeHasPermission(user)
    /\ PropertyGetQueryset(user) = {} /\ UnitGetQueryset(user) = {}
    /\ PaymentGetQueryset(user) = {} /\ NoticeGetQueryset(user) = {}
    /\ \A method \in Methods :
         /\ \A pk \in DOMAIN properties :
              /\ ~PropertyHasObjectPermission(user, method, pk)
              /\ PropertyGetObject(user, method, pk) = 403
         /\ \A pk \in DOMAIN units :
              /\ ~UnitHasObjectPermission(user, method, pk)
              /\ UnitGetObject(user, method, pk) = 403
         /\ \A pk \in DOMAIN payments :
              /\ ~PaymentHasObjectPermission(user, method, pk)
              /\ PaymentGetObject(user, method, pk) = 403
         /\ \A pk \in DOMAIN notices :
              /\ ~NoticeHasObjectPermission(user, method, pk)
              /\ NoticeGetObject(user, method, pk) = 403

\* A property, a unit, a payment and a notice that the landlord lists, with
\* the agent and the user of unknown role present.
C5_Witness ==
  /\ PropertyGetQueryset("L1") # {} /\ UnitGetQueryset("L1") # {}
  /\ PaymentGetQueryset("L1") # {} /\ NoticeGetQueryset("L1") # {}
  /\ role("A1") = "agent" /\ role("X1") \notin {"agent", "landlord"}
  /\ UnitGetQueryset("A1") = {} /\ NoticeGetQueryset("X1") = {}

\* C6: a create, update, partial-update, delete or assign request by a tenant
\* on units, payments or notices leaves the units, the payments and the
\* notices, with all their fields, as they were: from no reachable state is
\* there a step of such a request that changes any of them.
TenantWrite(t) ==
  \/ UnitWrites({t}, UnitCreateDataNarrow, UnitUpdateDataNarrow, BOOLEAN,
                TenantIds)
  \/ UnitDeletes({t})
  \/ PaymentRequests({t}, PaymentCreateData, PaymentUpdateDataNarrow, BOOLEAN)
  \/ NoticeRequests({t}, NoticeDataNarrow, NoticeUpdateDataNarrow, BOOLEAN)

C6_TenantWritesChangeNothing ==
  \A t \in Tenants :
    ~ENABLED (TenantWrite(t)
              /\ <<units, payments, notices>>' # <<units, payments, notices>>)

\* T1 holds a unit, has a payment on it and can read a notice; there is room
\* for another unit, so a create would not fail for lack of space.
C6_Witness ==
  /\ \E pk \in DOMAIN units : UnitGetObject("T1", "GET", pk) = 200
  /\ \E pk \in DOMAIN payments : PaymentGetObject("T1", "GET", pk) = 200
  /\ \E pk \in DOMAIN notices : NoticeGetObject("T1", "GET", pk) = 200
  /\ HasFreePk(units, MaxUnits)

\* C7: a payment is created by a landlord only for a unit whose property
\* they own and by a caretaker only for a unit whose property lists them; a
\* create request for a unit of any other property stores no payment.
C7_PaymentCreatedInOwnProperty ==
  [][\A user \in Actors, data \in PaymentCreateData :
       PaymentCreate(user, data)
         => OwnsOrManages(user, units[data.unit].property)]_vars

\* C8: on a notice that a landlord who did not create it may access because
\* its target (property, unit, or individual tenant) lies in a property they
\* own, a caretaker of that property who did not create it is allowed too,
\* by the object-level predicate and in the list queryset.
TargetProperties(n) ==
  IF n.audience_type = "property" /\ n.target_property # NoId
    THEN {n.target_property}
  ELSE IF n.audience_type = "unit" /\ n.target_unit # NoId
    THEN {units[n.target_unit].property}
  ELSE IF n.audience_type = "individual" /\ n.target_user # NoUser
    THEN {units[a].property : a \in assigned_unit(n.target_user)}
  ELSE {}

C8_CaretakerMirrorsLandlord ==
  \A pk \in DOMAIN notices, method \in Methods :
    \A l \in Landlords \cap Actors, k \in Caretakers \cap Actors :
      \A prop \in TargetProperties(notices[pk]) :
        ( /\ notices[pk].created_by \notin {l, k}
          /\ properties[prop].landlord = l
          /\ NoticeHasObjectPermission(l, method, pk)
          /\ k \in properties[prop].caretakers )
        => /\ NoticeHasObjectPermission(k, method, pk)
           /\ pk \in NoticeGetQueryset(k)

\* C9: get_recipients gives, for every stored notice in every state, the
\* set of the audience table, read on the current units and users.
AudienceTable(n) ==
  CASE n.audience_type = "all_tenants" ->
         {u \in Tenants : is_active(u)}
    [] n.audience_type = "property" ->
         {u \in Tenants :
            /\ is_active(u)
            /\ \E pk \in DOMAIN units :
                 units[pk].tenant = u /\ units[pk].property = n.target_property}
    [] n.audience_type = "unit" ->
         {units[n.target_unit].tenant} \ {NoUser}
    [] n.audience_type = "individual" -> {n.target_user}
    [] n.audience_type = "caretakers" ->
         {u \in Caretakers : is_active(u)}
    [] n.audience_type = "custom" ->
         {u \in n.custom_recipients : is_active(u)}

C9_RecipientsFollowAudienceTable ==
  \A pk \in DOMAIN notices : get_recipients(pk) = AudienceTable(notices[pk])

\* A property notice whose property houses the active tenant T1 and the
\* inactive tenant T2: T1 alone receives it.
C9_Witness ==
  \E pk \in DOMAIN notices :
    /\ notices[pk].audience_type = "property"
    /\ \E a \in assigned_unit("T1"), b \in assigned_unit("T2") :
         /\ units[a].property = notices[pk].target_property
         /\ units[b].property = notices[pk].target_property
    /\ get_recipients(pk) = {"T1"}

\* C10: no stored notice lacks the target its audience_type needs, whatever
\* path created it: property has target_property, unit has target_unit,
\* individual has target_user, custom has custom_recipients.
C10_StoredNoticeHasTarget ==
  \A pk \in DOMAIN notices :
    LET n == notices[pk] IN
    /\ n.audience_type = "property" => n.target_property # NoId
    /\ n.audience_type = "unit" => n.target_unit # NoId
    /\ n.audience_type = "individual" => n.target_user # NoUser
    /\ n.audience_type = "custom" => n.custom_recipients # {}

\* C11: a retrieval by a tenant that succeeds leaves a read-status row for
\* (notice, tenant); a row that appears is unread with read_at unset and
\* appears only for a tenant recipient whose retrieval of the notice
\* succeeds; and a retrieval changes no row that exists.
Unread == [is_read |-> FALSE, read_at |-> NoDate]

C11_RetrievalCreatesUnreadRow ==
  [][/\ \A key \in (DOMAIN read_statuses') \ DOMAIN read_statuses :
          /\ read_statuses'[key] = Unread
          /\ is_tenant(key[2])
          /\ key[1] \in DOMAIN notices
          /\ NoticeRetrieveStatus(key[2], key[1]) = 200
          /\ key[2] \in get_recipients(key[1])
     /\ \A user \in Actors, pk \in DOMAIN notices :
          NoticeRetrieve(user, pk) =>
            /\ is_tenant(user) =>
                 ReadStatusKey(pk, user) \in DOMAIN read_statuses'
            /\ \A key \in DOMAIN read_statuses :
                 read_statuses'[key] = read_statuses[key]]_vars

\* T1 has retrieved a unit notice addressed to them and the row is unread.
C11_Witness ==
  \E pk \in DOMAIN notices :
    /\ notices[pk].audience_type = "unit"
    /\ NoticeRetrieveStatus("T1", pk) = 200
    /\ ReadStatusKey(pk, "T1") \in DOMAIN read_statuses
    /\ read_statuses[ReadStatusKey(pk, "T1")] = Unread

\* C12: a tenant who is a recipient of a published, currently visible notice
\* and calls mark_as_read on it succeeds.
C12_RecipientCanAcknowledge ==
  \A t \in Tenants \cap Actors, pk \in DOMAIN notices :
    (t \in get_recipients(pk) /\ pk \in NoticeGetQueryset(t))
      => NoticeMarkAsReadStatus(t, pk) = 200

\* C13: a retrieval or an acknowledgment leaves every row that is read as it
\* is: is_read stays true and read_at keeps its value.
RetrievalOrAcknowledgment ==
  \/ \E user \in Actors, pk \in DOMAIN notices :
       NoticeRetrieve(user, pk) \/ NoticeMarkAsRead(user, pk)
  \/ Acknowledgments

C13_ReadNeverRegresses ==
  [][RetrievalOrAcknowledgment =>
       \A key \in DOMAIN read_statuses :
         read_statuses[key].is_read =>
           /\ key \in DOMAIN read_statuses'
           /\ read_statuses'[key] = read_statuses[key]]_vars

\* A row read at time 0 still says so at a later time.
C13_Witness ==
  \E key \in DOMAIN read_statuses :
    /\ read_statuses[key].is_read
    /\ read_statuses[key].read_at < now

\* C14: a read-status row is never deleted: a pair that has a row keeps one
\* through every step.
C14_RowNeverDeleted ==
  [][\A key \in DOMAIN read_statuses : key \in DOMAIN read_statuses']_vars

\* C15: for every read-status row, read_at is set exactly when is_read is
\* true.
C15_ReadAtIffRead ==
  \A key \in DOMAIN read_statuses :
    (read_statuses[key].read_at # NoDate) <=> read_statuses[key].is_read

\* A row read at time 1, after having been created at time 0 or 1.
C15_Witness ==
  \E key \in DOMAIN read_statuses :
    read_statuses[key].is_read /\ read_statuses[key].read_at = MaxNow

\* C16: after any sequence of unit create, update, partial-update and
\* assign_tenant requests, each tenant is the tenant of at most one unit.
C16_OneUnitPerTenant ==
  \A t \in Users : Cardinality(assigned_unit(t)) <= 1

\* T1 and T2 each hold a unit, and the owner's requests to give T1 the other
\* unit, by assign_tenant and by a partial update, are refused.
C16_Witness ==
  \E a \in assigned_unit("T1"), b \in assigned_unit("T2") :
    \E user \in Actors :
      /\ UnitGetObject(user, "POST", b) = 200
      /\ AssignTenantStatus(user, b, "T1") = 400
      /\ UnitUpdateStatus(user, b, TenantOnly("T1"), TRUE) = 400

\* C17: for a user allowed on the unit, assigning a tenant who holds a
\* different unit is rejected, and assigning a tenant to the unit they hold
\* succeeds, both by assign_tenant and by a unit update that sets tenant.
C17_ReassignSameUnitSucceeds ==
  \A user \in Actors, pk \in DOMAIN units, t \in Tenants :
    (UnitGetObject(user, "POST", pk) = 200 /\ assigned_unit(t) # {}) =>
      IF pk \in assigned_unit(t)
        THEN /\ AssignTenantStatus(user, pk, t) = 200
             /\ UnitUpdateStatus(user, pk, TenantOnly(t), TRUE) = 200
        ELSE /\ AssignTenantStatus(user, pk, t) # 200
             /\ UnitUpdateStatus(user, pk, TenantOnly(t), TRUE) # 200

\* C18: under every interleaving of concurrent requests that give the same
\* tenant to different units, no state has the tenant on two units.
C18_NoDoubleAssignmentUnderRace ==
  \A t \in Tenants : \A a, b \in assigned_unit(t) : a = b

\* C19: a unit save is one indivisible step with the recomputation of
\* total_units: in every state under concurrent unit saves, each property's
\* total_units is the number of its units.
C19_SaveAtomicWithTotal ==
  \A prop \in DOMAIN properties :
    properties[prop].total_units =
      Cardinality({u \in DOMAIN units : units[u].property = prop})

\* C20: for a tenant with an assigned unit u and any (year, month),
\* get_tenant_balance returns expected = u.rent_amount, paid = the sum of the
\* amounts of exactly the payments of unit u, that year and month and status
\* 'completed', balance = expected - paid and is_behind = (balance > 0); with
\* no completed payment for the period, balance = rent_amount and is_behind
\* is true when rent_amount > 0.
BalanceYears == {current_year - 1, current_year}
BalanceMonths == {1, 2}

Counted(pk, u, year, month) ==
  /\ pk \in DOMAIN payments
  /\ payments[pk].unit = u
  /\ payments[pk].payment_year = year
  /\ payments[pk].payment_month = month
  /\ payments[pk].status = "completed"

RECURSIVE PaidUpTo(_, _, _, _)
PaidUpTo(n, u, year, month) ==
  IF n = 0 THEN 0
  ELSE (IF Counted(n, u, year, month) THEN payments[n].amount ELSE 0)
       + PaidUpTo(n - 1, u, year, month)

C20_BalanceIsRentMinusCompleted ==
  \A t \in Tenants : \A u \in assigned_unit(t) :
    \A year \in BalanceYears, month \in BalanceMonths :
      LET b == get_tenant_balance(t, year, month)
          paid == PaidUpTo(MaxLedger, u, year, month)
      IN /\ b.expected = units[u].rent_amount
         /\ b.paid = paid
         /\ b.balance = units[u].rent_amount - paid
         /\ b.is_behind = (units[u].rent_amount - paid > 0)
         /\ ((\A pk \in DOMAIN payments : ~Counted(pk, u, year, month)) =>
               /\ b.balance = units[u].rent_amount
               /\ (units[u].rent_amount > 0 => b.is_behind))

\* T1's unit has rent 2, one completed payment of 1 for January of the
\* current year and a second payment for the same month that is not
\* completed: the balance is 1 and the tenant is behind.
C20_Witness ==
  \E u \in assigned_unit("T1") :
    /\ units[u].rent_amount = 2
    /\ \E p, q \in DOMAIN payments :
         /\ p # q
         /\ Counted(p, u, current_year, 1) /\ payments[p].amount = 1
         /\ payments[q].unit = u /\ payments[q].status = "pending"
         /\ payments[q].payment_year = current_year
         /\ payments[q].payment_month = 1
    /\ get_tenant_balance("T1", current_year, 1).balance = 1
    /\ get_tenant_balance("T1", current_year, 1).is_behind

\* Under SpecTenure a unit's tenant, once set, is never changed and no unit
\* is deleted, so the users who are or ever were the tenant of a unit are
\* its current tenant, if any.
TenancyOnlyBegins ==
  [][\A u \in DOMAIN units :
       /\ u \in DOMAIN units'
       /\ (units[u].tenant # NoUser => units'[u].tenant = units[u].tenant)]_vars

Occupants(u) == {units[u].tenant} \ {NoUser}

\* C21: in every state reachable by payment create, update and partial-update
\* requests, every payment's tenant is a user who is, or earlier was, the
\* tenant of the payment's unit.
C21_PaymentTenantOccupiedUnit ==
  \A p \in DOMAIN payments : payments[p].tenant \in Occupants(payments[p].unit)

\* C22: every user created through the registration endpoint, whatever the
\* body's 'role' (absent, differently cased, unknown), has a role of the
\* fixed enumeration, and in fact only 'tenant' or 'caretaker'.
C22_RegisteredRoleInEnumeration ==
  \A a \in DOMAIN accounts :
    /\ accounts[a].role \in ROLE_CHOICES
    /\ accounts[a].role \in {"tenant", "caretaker"}

\* C23: a caretaker account is created only when the requester is a
\* landlord and a tenant account only when the requester is a caretaker; any
\* other requester / role combination creates no user.
C23_CreatorRules ==
  [][\A user \in Actors, data \in RegisterData :
       Register(user, data) =>
         \/ requested_role(data) = "caretaker" /\ is_landlord(user)
         \/ requested_role(data) = "tenant" /\ is_caretaker(user)]_vars

\* C24: for an actor with a permitted role and a property, unit, payment or
\* notice that exists outside the actor's visible set, retrieve, update and
\* delete answer 404, the answer for an id that does not exist, never 403.
Hidden(table, visible) == DOMAIN table \ visible

C24_HiddenLooksMissing ==
  \A user \in Actors :
    /\ PropertyHasPermission(user) =>
         \A pk \in Hidden(properties, PropertyGetQueryset(user)) :
           /\ PropertyGetObject(user, "GET", pk) = 404
           /\ PropertyGetObject(user, "GET", NoId) = 404
           /\ PropertyDestroyStatus(user, pk) = 404
           /\ PropertyDestroyStatus(user, NoId) = 404
           /\ \A data \in PropertyDataNarrow, partial \in BOOLEAN :
                /\ PropertyUpdateStatus(user, pk, data, partial) = 404
                /\ PropertyUpdateStatus(user, NoId, data, partial) = 404
    /\ UnitHasPermission(user) =>
         \A pk \in Hidden(units, UnitGetQueryset(user)) :
           /\ UnitGetObject(user, "GET", pk) = 404
           /\ UnitGetObject(user, "GET", NoId) = 404
           /\ UnitDestroyStatus(user, pk) = 404
           /\ UnitDestroyStatus(user, NoId) = 404
           /\ \A data \in UnitUpdateDataNarrow, partial \in BOOLEAN :
                /\ UnitUpdateStatus(user, pk, data, partial) = 404
                /\ UnitUpdateStatus(user, NoId, data, partial) = 404
    /\ PaymentHasPermission(user) =>
         \A pk \in Hidden(payments, PaymentGetQueryset(user)) :
           /\ PaymentGetObject(user, "GET", pk) = 404
           /\ PaymentGetObject(user, "GET", NoId) = 404
           /\ PaymentDestroyStatus(user, pk) = 404
           /\ PaymentDestroyStatus(user, NoId) = 404
           /\ \A data \in PaymentUpdateDataNarrow, partial \in BOOLEAN :
                /\ PaymentUpdateStatus(user, pk, data, partial) = 404
                /\ PaymentUpdateStatus(user, NoId, data, partial) = 404
    /\ NoticeHasPermission(user) =>
         \A pk \in Hidden(notices, NoticeGetQueryset(user)) :
           /\ NoticeRetrieveStatus(user, pk) = 404
           /\ NoticeRetrieveStatus(user, NoId) = 404
           /\ NoticeDestroyStatus(user, pk) = 404
           /\ NoticeDestroyStatus(user, NoId) = 404
           /\ \A data \in NoticeUpdateDataNarrow, partial \in BOOLEAN :
                /\ NoticeUpdateStatus(user, pk, data, partial) = 404
                /\ NoticeUpdateStatus(user, NoId, data, partial) = 404

\* Caretaker K1, who manages one property of two, is refused sight of the
\* other property, of its unit and of a payment and a notice; tenant T1 is
\* refused the deletion of a unit that is not T1's.
C24_Witness ==
  /\ Hidden(properties, PropertyGetQueryset("K1")) # {}
  /\ PropertyGetQueryset("K1") # {}
  /\ Hidden(units, UnitGetQueryset("K1")) # {}
  /\ Hidden(payments, PaymentGetQueryset("K1")) # {}
  /\ Hidden(notices, NoticeGetQueryset("K1")) # {}
  /\ \E pk \in Hidden(units, UnitGetQueryset("T1")) :
       UnitDestroyStatus("T1", pk) = 404

\* C25: every user in the recipient set of a notice that is published,
\* whose publish_date has passed and that has not expired can see it: the
\* notice is in the user's list queryset and the object check lets the user
\* retrieve it, for every audience_type.
C25_RecipientsSeeActiveNotice ==
  \A pk \in DOMAIN notices :
    notice_is_active(notices[pk]) =>
      \A user \in get_recipients(pk) :
        /\ pk \in NoticeGetQueryset(user)
        /\ NoticeHasObjectPermission(user, "GET", pk)

\* C26: in every state reachable by unit create, update (a change of the
\* unit's property included) and delete requests, each property's
\* total_units is the number of units that belong to the property.
UnitsOf(prop) == {u \in DOMAIN units : units[u].property = prop}

C26_TotalUnitsIsUnitCount ==
  \A prop \in DOMAIN properties :
    Cardinality(UnitsOf(prop)) = properties[prop].total_units

\* C27: after any unit create, update or partial-update request by a
\* landlord or caretaker that succeeds, the unit's property has the actor as
\* landlord (for a landlord) or among its caretakers (for a caretaker).
C27_UnitStaysInOwnProperty ==
  [][\A user \in Landlords \cup Caretakers :
       /\ \A data \in UnitData :
            UnitCreate(user, data) =>
              OwnsOrManages(user, units'[NewPk(units, MaxUnits)].property)
       /\ \A pk \in DOMAIN units, data \in UnitData, partial \in BOOLEAN :
            UnitUpdate(user, pk, data, partial) =>
              OwnsOrManages(user, units'[pk].property)]_vars

\* C28: assign_tenant never evicts a sitting tenant: it is rejected when the
\* unit has a tenant other than the requested one, so it only ever changes a
\* unit's tenant from none to a user, never from one user to another.
C28_AssignTenantNeverEvicts ==
  [][\A user \in Actors, pk \in DOMAIN units, tenant_id \in TenantIds :
       assign_tenant(user, pk, tenant_id) =>
         /\ units[pk].tenant = NoUser
         /\ units'[pk].tenant = tenant_id]_vars

\* C29: a unit-create request by a tenant, which passes the view-level
\* UnitPermission, ends in an explicit 403 response and creates no unit; it
\* never ends in an unhandled error.
C29_TenantCreateIsForbidden ==
  \A user \in Actors :
    (is_tenant(user) /\ UnitHasPermission(user)) =>
      \A data \in UnitData :
        /\ UnitCreateStatus(user, data) = 403
        /\ ~ENABLED UnitCreate(user, data)

\* C30: for every current month 1..12 and every number of months n >= 1,
\* monthly_report computes for each i in 0..n-1 the calendar (year, month)
\* exactly i months before the current month, with month in 1..12, and
\* returns the n entries without failing.
MonthsBefore(year, month, i) ==
  LET k == year * 12 + (month - 1) - i IN date(k \div 12, (k % 12) + 1)

C30_ReportCoversLastMonths ==
  report # NoReport =>
    /\ report.status # 500
    /\ \A j \in 1..Len(report.report_data) :
         /\ DateIsValid(report.report_data[j])
         /\ report.report_data[j] =
              MonthsBefore(report.year, report.month,
                           IF report.status = 200
                             THEN report.months_back - j ELSE j - 1)
    /\ (report.status = 200 =>
          Len(report.report_data) = report.months_back)
====
